---------------------------- MODULE Spec2Model ----------------------------
(***************************************************************************)
(* A model of the NEPSE floorsheet client (src/nepse_analysis/nepse.py):    *)
(* the date guard, the session with its 401 response hook, the paginated    *)
(* floorsheet fetch, the per-broker aggregation and the ranking.            *)
(*                                                                          *)
(* Python values are modelled as follows.                                   *)
(*   - A dict is a sequence of entries in insertion order (Python dicts     *)
(*     iterate in insertion order), each entry a record with a key field.   *)
(*   - None is [kind |-> "None"]; an absent top_n is NoTopN.                *)
(*   - A percent is an integer number of hundredths (66.67 is 6667).        *)
(*   - A date string "YYYY-MM-DD" is the index of its day; day d falls on   *)
(*     weekday d % 7 with 0 = Monday, as datetime.weekday() counts.         *)
(*   - A raised exception is a value [kind |-> "raise", exc |-> name].      *)
(***************************************************************************)
EXTENDS Integers, Sequences, FiniteSets, TLC

VARIABLES
    _jwt_tokens,  \* self._jwt_tokens: [accessToken, refreshToken]
    _securities,  \* self._securities: symbol -> securityId
    _sectors,     \* self._sectors: sector id -> name
    _holidays,    \* self._holidays: the holiday dates
    sectors_pkl,  \* the file ./data/sectors.pkl, or no file
    job,          \* the public call in progress, or the last one made
    sec,          \* frame of _get_sector_floorsheet: securities, index, results
    fs,           \* frame of _get_floorsheet: page_number, floorsheet_data, ...
    rng,          \* frame of _get_floorsheet_by_range: date_range, index, final_data
    inflight,     \* stack of _perform_request frames, innermost last
    log,          \* requests put on the wire since the call was entered, answered or not
    result,       \* what the call returned or raised
    call,         \* a direct call of a helper: its name and arguments
    ret           \* what that call returned

refvars == <<_securities, _sectors, _holidays, sectors_pkl>>

netvars == <<_jwt_tokens, job, sec, fs, rng, inflight, log, result>>

purevars == <<call, ret>>

vars == <<_jwt_tokens, _securities, _sectors, _holidays, sectors_pkl, job, sec, fs, rng, inflight, log,
          result, call, ret>>

(***************************************************************************)
(* Bounds of the model.                                                     *)
(***************************************************************************)
MaxRecords == 3      \* longest record list handed to the aggregation directly
MaxTotalQty == 3     \* largest totalQty the server reports
MaxTopN == 2         \* largest top_n passed
MaxEntries == 3      \* largest aggregate handed to _get_sorted_list directly
MaxQty == 2          \* largest quantity of such an aggregate's entry

NoTopN == 0 - 1       \* top_n=None
NoDate == 0 - 1       \* date=None
Unbound == 0 - 1      \* a local not assigned yet

TopNs == {NoTopN} \cup (0..MaxTopN)

(***************************************************************************)
(* Trade records.  Two of the brokers share a member id and differ in name. *)
(***************************************************************************)
Brokers == { [memberId |-> "10", brokerName |-> "X"],
             [memberId |-> "10", brokerName |-> "W"],
             [memberId |-> "20", brokerName |-> "Y"] }

Quantities == {1, 2}

TradeRecord(b, s, q) ==
    [ buyerMemberId |-> b.memberId, buyerBrokerName |-> b.brokerName,
      sellerMemberId |-> s.memberId, sellerBrokerName |-> s.brokerName,
      contractQuantity |-> q ]

Sellers == { b \in Brokers : b.brokerName # "X" }

TradeRecords == { TradeRecord(b, s, q) : b \in Brokers, s \in Sellers, q \in Quantities }

SeqsUpTo(S, n) == UNION { [1..k -> S] : k \in 0..n }

Min(a, b) == IF a <= b THEN a ELSE b

(***************************************************************************)
(* ("%s - %s") % (memberId, brokerName)                                     *)
(***************************************************************************)
BrokerId_memberOnly(memberId, brokerName) == memberId

BrokerId(memberId, brokerName) == memberId \o " - " \o brokerName

(***************************************************************************)
(* Dict helpers: d.get(k) != None, and d[k]["quantity"] += q with the       *)
(* else-branch d[k] = {"quantity": 0} of the source.                        *)
(***************************************************************************)
HasKey(d, k) == \E i \in 1..Len(d) : d[i].key = k

AddQuantity_overwrite(d, k, q) ==
    IF HasKey(d, k)
    THEN [i \in 1..Len(d) |-> IF d[i].key = k THEN [d[i] EXCEPT !.quantity = q] ELSE d[i]]
    ELSE Append(d, [key |-> k, quantity |-> 0 + q])

AddQuantity(d, k, q) ==
    IF HasKey(d, k)
    THEN [i \in 1..Len(d) |-> IF d[i].key = k THEN [d[i] EXCEPT !.quantity = @ + q] ELSE d[i]]
    ELSE Append(d, [key |-> k, quantity |-> 0 + q])

(***************************************************************************)
(* The fold of _get_floorsheet over floorsheet_data: one pass, buyers into  *)
(* top_buy and sellers into top_sell.                                       *)
(***************************************************************************)
RECURSIVE FoldRecords(_, _, _)
FoldRecords(data, i, acc) ==
    IF i > Len(data) THEN acc
    ELSE LET r == data[i]
             buyer_id == BrokerId(r.buyerMemberId, r.buyerBrokerName)
             seller_id == BrokerId(r.sellerMemberId, r.sellerBrokerName)
         IN FoldRecords(data, i + 1,
                [ top_buy |-> AddQuantity(acc.top_buy, buyer_id, r.contractQuantity),
                  top_sell |-> AddQuantity(acc.top_sell, seller_id, r.contractQuantity) ])

(***************************************************************************)
(* round(quantity * 100 / total_quantity, 2), in hundredths.  The quotient  *)
(* is rounded to the nearest hundredth, a tie to the even one.              *)
(***************************************************************************)
RoundDiv(n, d) ==
    LET q == n \div d
        r == n % d
    IN IF 2 * r < d THEN q
       ELSE IF 2 * r > d THEN q + 1
       ELSE IF q % 2 = 0 THEN q ELSE q + 1

Percent(quantity, total_quantity) == RoundDiv(quantity * 100 * 100, total_quantity)

WithPercent(d, total_quantity) ==
    [i \in 1..Len(d) |->
        [key |-> d[i].key, quantity |-> d[i].quantity,
         percent |-> Percent(d[i].quantity, total_quantity)]]

(***************************************************************************)
(* sorted(data.items(), key=quantity, reverse=True): a stable sort, so      *)
(* entries of equal quantity keep their order.  Each entry is put after the *)
(* entries already placed whose quantity is not smaller.                    *)
(***************************************************************************)
InsertSorted(sorted, e) ==
    LET ahead == { i \in 1..Len(sorted) : sorted[i].quantity >= e.quantity }
        k == Cardinality(ahead)
    IN SubSeq(sorted, 1, k) \o <<e>> \o SubSeq(sorted, k + 1, Len(sorted))

RECURSIVE SortedByQuantity(_, _, _)
SortedByQuantity(data, i, sorted) ==
    IF i > Len(data) THEN sorted
    ELSE SortedByQuantity(data, i + 1, InsertSorted(sorted, data[i]))

_get_sorted_list(data, top_n) ==
    LET sorted_data == SortedByQuantity(data, 1, <<>>)
    IN IF top_n # NoTopN /\ top_n # 0
       THEN SubSeq(sorted_data, 1, Min(top_n, Len(sorted_data)))
       ELSE sorted_data

(***************************************************************************)
(* Lines 303-331 of _get_floorsheet: the aggregation of the accumulated     *)
(* records.  Dividing by a total_quantity of 0 raises ZeroDivisionError.    *)
(***************************************************************************)
Raise(exc) == [kind |-> "raise", exc |-> exc]

Pair(top_buy, top_sell) == [kind |-> "pair", top_buy |-> top_buy, top_sell |-> top_sell]

(***************************************************************************)
(* top_buy, top_sell = {}, {}: the aggregate maps of a run are new dicts.   *)
(* The variant starts a run from the lists the previous run returned.       *)
(***************************************************************************)
EmptyAggregates_kept ==
    IF ret.kind = "pair"
    THEN [top_buy |-> ret.top_buy, top_sell |-> ret.top_sell]
    ELSE [top_buy |-> <<>>, top_sell |-> <<>>]

EmptyAggregates == [top_buy |-> <<>>, top_sell |-> <<>>]

AggregateSingleDay(floorsheet_data, total_quantity, top_n) ==
    IF Len(floorsheet_data) > 0
    THEN LET folded == FoldRecords(floorsheet_data, 1, EmptyAggregates)
         IN IF total_quantity = 0
            THEN Raise("ZeroDivisionError")
            ELSE Pair(_get_sorted_list(WithPercent(folded.top_buy, total_quantity), top_n),
                      _get_sorted_list(WithPercent(folded.top_sell, total_quantity), top_n))
    ELSE Pair(<<>>, <<>>)

(***************************************************************************)
(* Reference data and the inputs of the public calls.                       *)
(***************************************************************************)
MaxRequests == 4     \* requests of one call the server answers

Today == 7           \* datetime.today(): a Monday

Dates == (Today - 3)..(Today + 1)   \* Friday, Saturday, Sunday, Monday, Tuesday

DateArgs == Dates \cup {NoDate}

RangeDates == (Today - 4)..Today    \* Thursday to Monday: two trading days, three closed

Symbols == {"NABIL", "HIDCL"}    \* the catalogue

SymbolArgs == {"NABIL"}          \* the symbol of a call for one security

TopNArgs == {NoTopN, 0, MaxTopN}   \* top_n of a public call: None, zero rows, some rows

KnownSector == 52

SectorArgs == {KnownSector, KnownSector + 1}

Tokens == 1..2       \* access/refresh token pairs the server issues

NoneValue == [kind |-> "None"]

Dict(items) == [kind |-> "dict", items |-> items]

Running == [kind |-> "running"]

(***************************************************************************)
(* What bool(value) gives in `if value: return value` of the wrapper: a     *)
(* 2-tuple is true whatever it holds, a dict is true when it has entries.   *)
(***************************************************************************)
Truthy(value) ==
    CASE value.kind = "pair" -> TRUE
      [] value.kind = "dict" -> Len(value.items) > 0
      [] OTHER -> FALSE

(***************************************************************************)
(* The test of the wrapper of _check_date_sector, lines 71-80: "nosector"   *)
(* (the sector is unknown: the sectors are displayed, None is returned),    *)
(* "TypeError" (date is None, and None > datetime.today() raises),          *)
(* "blocked" (Friday, Saturday, future or holiday) or "run".                *)
(***************************************************************************)
weekday(date) == date % 7

_check_date_sector_weekend(is_int, symbol_or_sector, date) ==
    IF is_int /\ symbol_or_sector \notin DOMAIN _sectors THEN "nosector"
    ELSE IF date = NoDate THEN "TypeError"
    ELSE IF weekday(date) \in {5, 6} \/ date > Today \/ date \in _holidays THEN "blocked"
    ELSE "run"

_check_date_sector(is_int, symbol_or_sector, date) ==
    IF is_int /\ symbol_or_sector \notin DOMAIN _sectors THEN "nosector"
    ELSE IF date = NoDate THEN "TypeError"
    ELSE IF weekday(date) \in {4, 5} \/ date > Today \/ date \in _holidays THEN "blocked"
    ELSE "run"

(***************************************************************************)
(* _display_data: range(0, top_n) raises TypeError when top_n is None; the  *)
(* rows are printed, nothing is returned.                                   *)
(***************************************************************************)
_display_data(top_buy, top_sell, top_n) ==
    IF top_n = NoTopN THEN Raise("TypeError") ELSE NoneValue

(***************************************************************************)
(* The machine the control operators below transform: the token pair and    *)
(* the frames of the call in progress.                                      *)
(***************************************************************************)
NoFs == [ active |-> FALSE, symbol |-> "", date |-> NoDate, top_n |-> NoTopN,
          page_number |-> 0, floorsheet_data |-> <<>>, total_quantity |-> Unbound ]

NoSec == [ active |-> FALSE, sector_id |-> 0, date |-> NoDate, top_n |-> NoTopN,
           securities |-> <<>>, index |-> 0, sector_floorsheet |-> <<>>,
           sector_analysis |-> [kind |-> "none"] ]

NoRng == [ active |-> FALSE, symbol |-> "", start_date |-> NoDate, end_date |-> NoDate,
           date_range |-> <<>>, index |-> 0, final_data |-> <<>>, days |-> <<>> ]

Machine(tokens) ==
    [ jwt |-> tokens, sec |-> NoSec, fs |-> NoFs, rng |-> NoRng, inflight |-> <<>>,
      log |-> <<>>, result |-> Running ]

(***************************************************************************)
(* A request: the floorsheet POST of a page, the GET of a sector's          *)
(* securities, or the refresh-token POST.  auth is the access token of its  *)
(* authorization header; tries counts the resends urllib3 made of it.       *)
(***************************************************************************)
Method(kind) == IF kind \in {"sector", "sectors"} THEN "GET" ELSE "POST"

Request_tokenOfConstruction(kind, symbol, page, auth) ==
    [ kind |-> kind, symbol |-> symbol, page |-> page, auth |-> 1, tries |-> 0,
      answer |-> "pending", content |-> <<>>, last |-> FALSE, slept |-> FALSE ]

Request(kind, symbol, page, auth) ==
    [ kind |-> kind, symbol |-> symbol, page |-> page, auth |-> auth, tries |-> 0,
      answer |-> "pending", content |-> <<>>, last |-> FALSE, slept |-> FALSE ]

(***************************************************************************)
(* _perform_request up to the send: sleep(0.3), then session.request; the   *)
(* request is marked as sent right after the sleep.  Resend is the          *)
(* transport sending a request again in place of its previous send: that    *)
(* happens inside session.request, not after a sleep(0.3).                  *)
(***************************************************************************)
Send_noSleep(m, req) ==
    [m EXCEPT !.inflight = Append(@, req), !.log = Append(@, req)]

Send(m, req) ==
    LET sent == [req EXCEPT !.slept = TRUE]
    IN [m EXCEPT !.inflight = Append(@, sent), !.log = Append(@, sent)]

Resend(m, req) ==
    LET sent == [req EXCEPT !.tries = @ + 1, !.slept = FALSE]
    IN [m EXCEPT !.inflight = Append(SubSeq(@, 1, Len(@) - 1), sent), !.log = Append(@, sent)]

(***************************************************************************)
(* The call is over: with a value, or with an exception that no frame       *)
(* between its origin and the caller catches.                               *)
(***************************************************************************)
Finish(m, value) ==
    [m EXCEPT !.result = value, !.inflight = <<>>, !.fs.active = FALSE, !.sec.active = FALSE,
              !.rng.active = FALSE]

(***************************************************************************)
(* display_sector_combined_broker_trade, lines 515-541, for one security:   *)
(* its brokers are added to the sector's, then every percent of the sector  *)
(* is recomputed against the totals of this security alone.                 *)
(***************************************************************************)
RECURSIVE AddBrokers(_, _, _)
AddBrokers(d, brokers, i) ==
    IF i > Len(brokers) THEN d
    ELSE AddBrokers(AddQuantity(d, brokers[i].key, brokers[i].quantity), brokers, i + 1)

RECURSIVE SumQuantity(_, _)
SumQuantity(entries, i) ==
    IF i > Len(entries) THEN 0 ELSE entries[i].quantity + SumQuantity(entries, i + 1)

MergeSecurity(sector_analysis, floorsheet) ==
    LET top_buy == AddBrokers(sector_analysis.top_buy, floorsheet.top_buy, 1)
        top_sell == AddBrokers(sector_analysis.top_sell, floorsheet.top_sell, 1)
        top_buy_total == SumQuantity(floorsheet.top_buy, 1)
        top_sell_total == SumQuantity(floorsheet.top_sell, 1)
    IN IF (Len(top_buy) > 0 /\ top_buy_total = 0) \/ (Len(top_sell) > 0 /\ top_sell_total = 0)
       THEN Raise("ZeroDivisionError")
       ELSE [ kind |-> "analysis",
              top_buy |-> WithPercent(top_buy, top_buy_total),
              top_sell |-> WithPercent(top_sell, top_sell_total) ]

RECURSIVE MergeSector(_, _, _)
MergeSector(sector_analysis, items, i) ==
    IF i > Len(items) \/ sector_analysis.kind = "raise" THEN sector_analysis
    ELSE MergeSector(MergeSecurity(sector_analysis, items[i]), items, i + 1)

(***************************************************************************)
(* The rest of a public call once _get_sector_floorsheet has returned       *)
(* value: the wrapper turns an empty dict into None, and the display        *)
(* operations then call .items() on it.                                     *)
(***************************************************************************)
SectorReturn(m, j, value) ==
    LET sector_floorsheet == IF Truthy(value) THEN value ELSE NoneValue
    IN CASE j.op = "_get_sector_floorsheet" -> Finish(m, sector_floorsheet)
         [] j.op = "display_sector_floorsheet" ->
              IF sector_floorsheet.kind = "None" THEN Finish(m, Raise("AttributeError"))
              ELSE Finish(m, _display_data(<<>>, <<>>, j.top_n))
         [] j.op = "display_sector_combined_broker_trade" ->
              IF sector_floorsheet.kind = "None" THEN Finish(m, Raise("AttributeError"))
              ELSE LET merged == MergeSector([kind |-> "analysis", top_buy |-> <<>>, top_sell |-> <<>>],
                                             sector_floorsheet.items, 1)
                       m1 == [m EXCEPT !.sec.sector_analysis = merged]
                   IN IF merged.kind = "raise" THEN Finish(m1, merged)
                      ELSE Finish(m1, _display_data(_get_sorted_list(merged.top_buy, j.top_n),
                                                    _get_sorted_list(merged.top_sell, j.top_n),
                                                    j.top_n))

(***************************************************************************)
(* _get_date_range, and the fold of _get_floorsheet_by_range, lines         *)
(* 373-386: the buy side of a day is added to final_data, then its sell     *)
(* side; a broker not yet in final_data enters it with buy 0 and sell 0.    *)
(* final_data is a dict: entries [key, buy, sell] in insertion order.       *)
(***************************************************************************)
_get_date_range_exclusive(start_date, end_date) ==
    [x \in 1..(end_date - start_date) |-> start_date + (x - 1)]

_get_date_range(start_date, end_date) ==
    [x \in 1..(end_date - start_date + 1) |-> start_date + (x - 1)]

AddSide(final_data, key, side, quantity) ==
    LET known == IF \E i \in 1..Len(final_data) : final_data[i].key = key
                 THEN final_data
                 ELSE Append(final_data, [key |-> key, buy |-> 0, sell |-> 0])
    IN [i \in 1..Len(known) |->
           IF known[i].key = key
           THEN IF side = "buy" THEN [known[i] EXCEPT !.buy = @ + quantity]
                                ELSE [known[i] EXCEPT !.sell = @ + quantity]
           ELSE known[i]]

RECURSIVE AddSides(_, _, _, _)
AddSides(final_data, brokers, side, i) ==
    IF i > Len(brokers) THEN final_data
    ELSE AddSides(AddSide(final_data, brokers[i].key, side, brokers[i].quantity),
                  brokers, side, i + 1)

MergeDate(final_data, floorsheet) ==
    AddSides(AddSides(final_data, floorsheet.top_buy, "buy", 1), floorsheet.top_sell, "sell", 1)

(***************************************************************************)
(* The guarded _get_floorsheet up to its first request (lines 263-289), the *)
(* loop of _get_sector_floorsheet over the securities (lines 347-352), and  *)
(* what the caller of _get_floorsheet does with what it returns.            *)
(***************************************************************************)
RECURSIVE Call_get_floorsheet(_, _, _, _, _)
RECURSIVE NextSecurity(_, _)
RECURSIVE NextDate(_, _)
RECURSIVE FloorsheetReturn(_, _, _)

Call_get_floorsheet(m, j, symbol, date, top_n) ==
    LET check == _check_date_sector(FALSE, symbol, date)
    IN CASE check = "TypeError" -> Finish(m, Raise("TypeError"))
         [] check = "blocked" -> FloorsheetReturn(m, j, NoneValue)
         [] check = "run" ->
              IF symbol \notin DOMAIN _securities THEN Finish(m, Raise("KeyError"))
              ELSE Send([m EXCEPT !.fs = [ active |-> TRUE, symbol |-> symbol, date |-> date,
                                           top_n |-> top_n, page_number |-> 0,
                                           floorsheet_data |-> <<>>,
                                           total_quantity |-> Unbound ]],
                        Request("floorsheet", symbol, 0, m.jwt.accessToken))

NextSecurity(m, j) ==
    IF m.sec.index > Len(m.sec.securities)
    THEN SectorReturn(m, j, Dict(m.sec.sector_floorsheet))
    ELSE Call_get_floorsheet(m, j, m.sec.securities[m.sec.index], m.sec.date, m.sec.top_n)

NextDate(m, j) ==
    IF m.rng.index > Len(m.rng.date_range)
    THEN Finish(m, [kind |-> "combined", items |-> m.rng.final_data])
    ELSE Call_get_floorsheet(m, j, m.rng.symbol, m.rng.date_range[m.rng.index], NoTopN)

FloorsheetReturn(m, j, value) ==
    CASE j.op = "_get_floorsheet" -> Finish(m, value)
      [] j.op = "_get_floorsheet_by_range" ->
           NextDate([m EXCEPT !.rng.final_data = IF Truthy(value) THEN MergeDate(@, value) ELSE @,
                              !.rng.days = Append(@, [ date |-> m.rng.date_range[m.rng.index],
                                                       floorsheet |-> value ]),
                              !.rng.index = @ + 1], j)
      [] j.op = "display_security_floorsheet" ->
           IF value.kind = "None" THEN Finish(m, Raise("TypeError"))
           ELSE Finish(m, _display_data(value.top_buy, value.top_sell, j.top_n))
      [] OTHER ->
           IF value.kind = "None" THEN Finish(m, Raise("TypeError"))
           ELSE NextSecurity(
                    [m EXCEPT !.sec.sector_floorsheet =
                                  Append(@, [ key |-> m.fs.symbol, top_buy |-> value.top_buy,
                                              top_sell |-> value.top_sell ]),
                              !.sec.index = @ + 1], j)

(***************************************************************************)
(* _get_floorsheet from the answer to a page request to the next request    *)
(* or the return, lines 290-331.                                            *)
(***************************************************************************)
DateNotValid == "Searched Date is not valid."

NextPage_same(page_number) == page_number

NextPage(page_number) == page_number + 1

AfterPage(m, j, outcome) ==
    LET last_page == IF outcome.ok THEN outcome.body.last ELSE outcome.text = DateNotValid
        fs1 == IF outcome.ok
               THEN [m.fs EXCEPT !.total_quantity = outcome.body.totalQty,
                                 !.floorsheet_data = IF ~outcome.body.empty
                                                     THEN @ \o outcome.body.content ELSE @]
               ELSE m.fs
        m1 == [m EXCEPT !.fs = [fs1 EXCEPT !.page_number = NextPage(@)]]
    IN IF last_page
       THEN LET value == AggregateSingleDay(m1.fs.floorsheet_data, m1.fs.total_quantity,
                                            m1.fs.top_n)
            IN IF value.kind = "raise" THEN Finish(m1, value)
               ELSE FloorsheetReturn([m1 EXCEPT !.fs.active = FALSE], j, value)
       ELSE Send(m1, Request("floorsheet", m1.fs.symbol, m1.fs.page_number, m1.jwt.accessToken))

(***************************************************************************)
(* _get_sector_floorsheet from the answer to its GET, lines 344-355, and    *)
(* its start, lines 337-343.                                                *)
(***************************************************************************)
AfterSectorList(m, j, outcome) ==
    IF outcome.ok
    THEN NextSecurity([m EXCEPT !.sec.securities = outcome.body, !.sec.index = 1], j)
    ELSE SectorReturn(m, j, Dict(<<>>))

Call_get_sector_floorsheet(m, j, sector_id, date, top_n) ==
    LET check == _check_date_sector(TRUE, sector_id, date)
    IN CASE check = "TypeError" -> Finish(m, Raise("TypeError"))
         [] check \in {"blocked", "nosector"} -> SectorReturn(m, j, NoneValue)
         [] check = "run" ->
              Send([m EXCEPT !.sec = [ active |-> TRUE, sector_id |-> sector_id, date |-> date,
                                       top_n |-> top_n, securities |-> <<>>, index |-> 0,
                                       sector_floorsheet |-> <<>>,
                                       sector_analysis |-> [kind |-> "none"] ]],
                   Request("sector", "", 0, m.jwt.accessToken))

(***************************************************************************)
(* _perform_request returns (response, error) to its caller.  The caller of *)
(* a refresh request is _refresh_jwt_tokens, run by the hook                *)
(* _check_response of the request below it: the tokens are replaced when    *)
(* the refresh succeeded, the hook sets the authorization header of the     *)
(* request already answered and returns the same 401 response, and          *)
(* raise_for_status makes an error of it.  Nothing is sent again.           *)
(***************************************************************************)
Ok(body) == [ok |-> TRUE, body |-> body, text |-> ""]

Error(text) == [ok |-> FALSE, body |-> <<>>, text |-> text]

RECURSIVE ReturnFromRequest(_, _, _)
ReturnFromRequest(m, j, outcome) ==
    LET top == m.inflight[Len(m.inflight)]
        m1 == [m EXCEPT !.inflight = SubSeq(@, 1, Len(@) - 1)]
    IN CASE top.kind = "refresh" ->
              ReturnFromRequest(IF outcome.ok THEN [m1 EXCEPT !.jwt = outcome.body] ELSE m1,
                                j, Error("Unauthorized"))
         [] top.kind = "floorsheet" -> AfterPage(m1, j, outcome)
         [] top.kind = "sector" -> AfterSectorList(m1, j, outcome)
         [] top.kind = "sectors" -> Finish(m1, NoneValue)

(***************************************************************************)
(* The state after construction: tokens fetched, the catalogue, the sectors *)
(* and the holidays loaded, no call made yet.                               *)
(***************************************************************************)
(***************************************************************************)
(* _pickle_data and _unpickle_data.  pickle writes the key/value pairs of   *)
(* the dict to the file and load builds a dict from the pairs it reads.     *)
(***************************************************************************)
NoFile == [kind |-> "absent"]

_pickle_data(name, dict) ==
    [kind |-> "file", name |-> name, pairs |-> { <<id, dict[id]>> : id \in DOMAIN dict }]

_unpickle_data_empty(file) == <<>>

_unpickle_data(file) ==
    [id \in { pair[1] : pair \in file.pairs } |->
        (CHOOSE pair \in file.pairs : pair[1] = id)[2]]

NoJob == [op |-> "none", symbol |-> "", sector_id |-> 0, date |-> NoDate, top_n |-> NoTopN]

NoCall == [fn |-> "none", data |-> <<>>, total_quantity |-> Unbound, top_n |-> NoTopN]

Constructed ==
    /\ _jwt_tokens = [accessToken |-> 1, refreshToken |-> 1]
    /\ _securities = [symbol \in Symbols |-> [securityId |-> symbol]]
    /\ _sectors = [id \in {KnownSector} |-> "Commercial Banks"]
    /\ _holidays = {Today - 1}
    /\ sectors_pkl = _pickle_data("sectors.pkl", _sectors)

Init ==
    /\ Constructed
    /\ job = NoJob
    /\ sec = NoSec
    /\ fs = NoFs
    /\ rng = NoRng
    /\ inflight = <<>>
    /\ log = <<>>
    /\ result = [kind |-> "idle"]
    /\ call = NoCall
    /\ ret = NoneValue

Current ==
    [ jwt |-> _jwt_tokens, sec |-> sec, fs |-> fs, rng |-> rng, inflight |-> inflight,
      log |-> log, result |-> result ]

Becomes(m) ==
    /\ _jwt_tokens' = m.jwt
    /\ sec' = m.sec
    /\ fs' = m.fs
    /\ rng' = m.rng
    /\ inflight' = m.inflight
    /\ log' = m.log
    /\ result' = m.result

Idle == result.kind = "idle"

Job(op, symbol, sector_id, date, top_n) ==
    [op |-> op, symbol |-> symbol, sector_id |-> sector_id, date |-> date, top_n |-> top_n]

(***************************************************************************)
(* The five guarded operations, each from its call to its first request or  *)
(* to its return.  The display operations are guarded themselves and call a *)
(* guarded operation.                                                       *)
(***************************************************************************)
Guarded(m, is_int, symbol_or_sector, date, body) ==
    LET check == _check_date_sector(is_int, symbol_or_sector, date)
    IN CASE check = "TypeError" -> Finish(m, Raise("TypeError"))
         [] check \in {"blocked", "nosector"} -> Finish(m, NoneValue)
         [] check = "run" -> body

_get_floorsheet ==
    \E symbol \in SymbolArgs, date \in DateArgs, top_n \in TopNArgs :
        LET j == Job("_get_floorsheet", symbol, 0, date, top_n)
        IN /\ Idle
           /\ job' = j
           /\ Becomes(Call_get_floorsheet(Machine(_jwt_tokens), j, symbol, date, top_n))
           /\ UNCHANGED <<refvars, purevars>>

_get_sector_floorsheet ==
    \E sector_id \in SectorArgs, date \in DateArgs, top_n \in TopNArgs :
        LET j == Job("_get_sector_floorsheet", "", sector_id, date, top_n)
        IN /\ Idle
           /\ job' = j
           /\ Becomes(Call_get_sector_floorsheet(Machine(_jwt_tokens), j, sector_id, date, top_n))
           /\ UNCHANGED <<refvars, purevars>>

_get_floorsheet_by_range ==
    \E symbol \in SymbolArgs, start_date \in RangeDates, end_date \in RangeDates :
        LET j == Job("_get_floorsheet_by_range", symbol, 0, start_date, NoTopN)
            m == Machine(_jwt_tokens)
        IN /\ Idle
           /\ job' = j
           /\ Becomes(NextDate([m EXCEPT !.rng = [ active |-> TRUE, symbol |-> symbol,
                                                   start_date |-> start_date,
                                                   end_date |-> end_date,
                                                   date_range |-> _get_date_range(start_date, end_date),
                                                   index |-> 1, final_data |-> <<>>,
                                                   days |-> <<>> ]], j))
           /\ UNCHANGED <<refvars, purevars>>

display_security_floorsheet ==
    \E symbol \in SymbolArgs, date \in DateArgs, top_n \in TopNArgs :
        LET j == Job("display_security_floorsheet", symbol, 0, date, top_n)
            m == Machine(_jwt_tokens)
        IN /\ Idle
           /\ job' = j
           /\ Becomes(Guarded(m, FALSE, symbol, date,
                              Call_get_floorsheet(m, j, symbol, date, top_n)))
           /\ UNCHANGED <<refvars, purevars>>

display_sector_floorsheet ==
    \E sector_id \in SectorArgs, date \in DateArgs, top_n \in TopNArgs :
        LET j == Job("display_sector_floorsheet", "", sector_id, date, top_n)
            m == Machine(_jwt_tokens)
        IN /\ Idle
           /\ job' = j
           /\ Becomes(Guarded(m, TRUE, sector_id, date,
                              Call_get_sector_floorsheet(m, j, sector_id, date, top_n)))
           /\ UNCHANGED <<refvars, purevars>>

display_sector_combined_broker_trade ==
    \E sector_id \in SectorArgs, date \in DateArgs, top_n \in TopNArgs :
        LET j == Job("display_sector_combined_broker_trade", "", sector_id, date, top_n)
            m == Machine(_jwt_tokens)
        IN /\ Idle
           /\ job' = j
           /\ Becomes(Guarded(m, TRUE, sector_id, date,
                              Call_get_sector_floorsheet(m, j, sector_id, date, NoTopN)))
           /\ UNCHANGED <<refvars, purevars>>

(***************************************************************************)
(* The server and the transport.  The request answered is the innermost one *)
(* in flight, which is the last one logged.                                 *)
(***************************************************************************)
RetryTotal == 3      \* Retry(total=3, ...)

PageContents ==
    { <<>>,
      <<TradeRecord([memberId |-> "10", brokerName |-> "X"],
                    [memberId |-> "20", brokerName |-> "Y"], 1)>>,
      <<TradeRecord([memberId |-> "20", brokerName |-> "Y"],
                    [memberId |-> "10", brokerName |-> "X"], 2)>> }

PageTotals == {0, MaxTotalQty}

Listings == { <<>>, <<"NABIL">>, <<"NABIL", "HIDCL">> }

Top == inflight[Len(inflight)]

Answerable ==
    /\ result.kind = "running"
    /\ inflight # <<>>
    /\ Len(log) <= MaxRequests

Answered(m, answer, content, last) ==
    [m EXCEPT !.log[Len(m.log)] = [@ EXCEPT !.answer = answer, !.content = content,
                                            !.last = last]]

ServerPage ==
    \E content \in PageContents, last \in BOOLEAN, totalQty \in PageTotals :
        /\ Answerable
        /\ Top.kind = "floorsheet"
        /\ Becomes(ReturnFromRequest(Answered(Current, "200", content, last), job,
                                     Ok([ totalQty |-> totalQty, content |-> content,
                                          last |-> last, empty |-> content = <<>> ])))
        /\ UNCHANGED <<job, refvars, purevars>>

ServerSecurities ==
    \E securities \in Listings :
        /\ Answerable
        /\ Top.kind = "sector"
        /\ Becomes(ReturnFromRequest(Answered(Current, "200", <<>>, FALSE), job, Ok(securities)))
        /\ UNCHANGED <<job, refvars, purevars>>

ServerTokens ==
    \E t \in Tokens \ {_jwt_tokens.accessToken} :
        /\ Answerable
        /\ Top.kind = "refresh"
        /\ Becomes(ReturnFromRequest(Answered(Current, "200", <<>>, FALSE), job,
                                     Ok([accessToken |-> t, refreshToken |-> t])))
        /\ UNCHANGED <<job, refvars, purevars>>

(***************************************************************************)
(* HTTP 401.  401 is in the status_forcelist of the Retry mounted on the    *)
(* session: urllib3 sends a GET again itself, with the same headers, and    *)
(* raises once the retries are used up, before any response reaches the     *)
(* hook; except BaseException of _perform_request then reads `response`,    *)
(* which was never bound.  A POST is not retried: its 401 response reaches  *)
(* _check_response, which calls _refresh_jwt_tokens.                        *)
(***************************************************************************)
Server401 ==
    /\ Answerable
    /\ LET m == Answered(Current, "401", <<>>, FALSE)
       IN IF Method(Top.kind) = "GET"
          THEN IF Top.tries < RetryTotal
               THEN Becomes(Resend(m, Top))
               ELSE Becomes(Finish(m, Raise("UnboundLocalError")))
          ELSE Becomes(Send(m, Request("refresh", "", 0, m.jwt.accessToken)))
    /\ UNCHANGED <<job, refvars, purevars>>

(***************************************************************************)
(* An error status outside the status_forcelist, such as 500.               *)
(***************************************************************************)
ServerError ==
    /\ Answerable
    /\ Becomes(ReturnFromRequest(Answered(Current, "500", <<>>, FALSE), job,
                                 Error("Internal Server Error")))
    /\ UNCHANGED <<job, refvars, purevars>>

(***************************************************************************)
(* The floorsheet endpoint rejects the date: an error status with the text  *)
(* "Searched Date is not valid.".                                           *)
(***************************************************************************)
ServerDateNotValid ==
    /\ Answerable
    /\ Top.kind = "floorsheet"
    /\ Becomes(ReturnFromRequest(Answered(Current, "date", <<>>, FALSE), job,
                                 Error(DateNotValid)))
    /\ UNCHANGED <<job, refvars, purevars>>

(***************************************************************************)
(* session.request raises (connection error, timeout): `response` is not    *)
(* bound when the except clause of _perform_request reads response.text,    *)
(* and the UnboundLocalError leaves every frame up to the caller.           *)
(***************************************************************************)
TransportFailure ==
    /\ Answerable
    /\ Becomes(Finish(Answered(Current, "exception", <<>>, FALSE), Raise("UnboundLocalError")))
    /\ UNCHANGED <<job, refvars, purevars>>

(***************************************************************************)
(* The caller has the value or the exception of the call; its frames are    *)
(* gone, the token pair stays.                                              *)
(***************************************************************************)
Return ==
    /\ result.kind \notin {"idle", "running"}
    /\ job' = NoJob
    /\ Becomes(Finish([Machine(_jwt_tokens) EXCEPT !.result = [kind |-> "idle"]],
                       [kind |-> "idle"]))
    /\ UNCHANGED <<refvars, purevars>>

Next ==
    \/ _get_floorsheet
    \/ _get_sector_floorsheet
    \/ _get_floorsheet_by_range
    \/ display_security_floorsheet
    \/ display_sector_floorsheet
    \/ display_sector_combined_broker_trade
    \/ ServerPage
    \/ ServerSecurities
    \/ ServerTokens
    \/ Server401
    \/ ServerError
    \/ ServerDateNotValid
    \/ TransportFailure
    \/ Return

Spec == Init /\ [][Next]_vars

(***************************************************************************)
(* The aggregation and the ranking called directly, on every input within   *)
(* the bounds: the aggregation of lines 303-331 on a record list with a     *)
(* total_quantity and a top_n, _get_sorted_list on an aggregate with a      *)
(* top_n.                                                                   *)
(***************************************************************************)
Keys == 1..MaxEntries

Aggregates ==
    { d \in SeqsUpTo([key : Keys, quantity : 0..MaxQty, percent : {0}], MaxEntries) :
        \A i, k \in 1..Len(d) : i # k => d[i].key # d[k].key }

Calls ==
    [ fn : {"aggregate"}, data : SeqsUpTo(TradeRecords, MaxRecords),
      total_quantity : 0..MaxTotalQty, top_n : TopNs ]
    \cup
    [ fn : {"_get_sorted_list"}, data : Aggregates, total_quantity : {Unbound},
      top_n : TopNs ]

Pending == [kind |-> "pending"]

InitAgg ==
    /\ Constructed
    /\ job = NoJob
    /\ sec = NoSec
    /\ fs = NoFs
    /\ rng = NoRng
    /\ inflight = <<>>
    /\ log = <<>>
    /\ result = [kind |-> "idle"]
    /\ call \in Calls
    /\ ret = Pending

Aggregate ==
    /\ call.fn = "aggregate"
    /\ ret = Pending
    /\ ret' = AggregateSingleDay(call.data, call.total_quantity, call.top_n)
    /\ UNCHANGED <<netvars, refvars, call>>

SortedList ==
    /\ call.fn = "_get_sorted_list"
    /\ ret = Pending
    /\ ret' = [kind |-> "list", items |-> _get_sorted_list(call.data, call.top_n)]
    /\ UNCHANGED <<netvars, refvars, call>>

(***************************************************************************)
(* The aggregation run a second time on the same records, total_quantity    *)
(* and top_n; result holds what the second run returned.                    *)
(***************************************************************************)
AggregateAgain ==
    /\ call.fn = "aggregate"
    /\ ret # Pending
    /\ result.kind = "idle"
    /\ result' = AggregateSingleDay(call.data, call.total_quantity, call.top_n)
    /\ UNCHANGED <<_jwt_tokens, job, sec, fs, rng, inflight, log, refvars, purevars>>

NextAgg ==
    \/ Aggregate
    \/ SortedList
    \/ AggregateAgain

SpecAgg == InitAgg /\ [][NextAgg]_vars

(***************************************************************************)
(* TokenParser (src/nepse_analysis/utils.py).  A token string is the        *)
(* sequence of its characters; s[lo:hi] and s[lo:] are Python slices with   *)
(* non-negative indices, which clamp to the length and never fail.  The     *)
(* class attribute data is a Python list indexed from 0; At reads it.       *)
(***************************************************************************)
TokenParser_data ==
    << 9, 0, 0, 0, 8, 0, 0, 0, 4, 0, 0, 0,
       1, 0, 0, 0, 2, 0, 0, 0, 3, 0, 0, 0,
       2, 0, 0, 0, 5, 0, 0, 0, 8, 0, 0, 0,
       7, 0, 0, 0, 9, 0, 0, 0, 8, 0, 0, 0,
       0, 0, 0, 0, 3, 0, 0, 0, 1, 0, 0, 0,
       2, 0, 0, 0, 2, 0, 0, 0, 4, 0, 0, 0,
       3, 0, 0, 0, 0, 0, 0, 0, 1, 0, 0, 0,
       9, 0, 0, 0, 5, 0, 0, 0, 4, 0, 0, 0,
       6, 0, 0, 0, 3, 0, 0, 0, 7, 0, 0, 0,
       2, 0, 0, 0, 1, 0, 0, 0, 6, 0, 0, 0,
       9, 0, 0, 0, 8, 0, 0, 0, 4, 0, 0, 0,
       1, 0, 0, 0, 2, 0, 0, 0, 2, 0, 0, 0,
       3, 0, 0, 0, 3, 0, 0, 0, 4, 0, 0, 0,
       4 >>

(***************************************************************************)
(* self.data[index]: an index from -len to len - 1 is in the list, a        *)
(* negative one counting from its end; any other raises IndexError.         *)
(***************************************************************************)
InTable(table, index) == 0 - Len(table) <= index /\ index < Len(table)

At(table, index) == table[(IF index < 0 THEN index + Len(table) ELSE index) + 1]

ShiftLeft(x, n) == x * 2^n

(***************************************************************************)
(* a // b of Python rounds towards minus infinity.  The variant rounds      *)
(* towards zero.                                                            *)
(***************************************************************************)
FloorDiv_towardsZero(a, b) == IF a >= 0 THEN a \div b ELSE 0 - ((0 - a) \div b)

FloorDiv(a, b) == a \div b

Slice_inclusive(s, lo, hi) == SubSeq(s, lo + 1, Min(hi + 1, Len(s)))

Slice(s, lo, hi) == SubSeq(s, lo + 1, Min(hi, Len(s)))

SliceFrom(s, lo) == SubSeq(s, lo + 1, Len(s))

(***************************************************************************)
(* cdx and rdx, one definition per assignment of the source; a name with a  *)
(* suffix is the value of that variable after its k-th assignment.          *)
(***************************************************************************)
cdx_unitsOnly(w2c_p0, w2c_p1) == At(TokenParser_data, ShiftLeft(w2c_p1 % 10, 2)) + 22

(***************************************************************************)
(* cdx_index and rdx_index are the value the table is indexed with.  The    *)
(* variant of cdx_index takes the tens digit from the argument w2c_p0,      *)
(* which the source overwrites before it reads it.                          *)
(***************************************************************************)
cdx_index_readsP0(w2c_p0, w2c_p1) ==
    LET i0_b == w2c_p0 % 10
        i1_b == w2c_p1 - (w2c_p1 \div 10) * 10
        i0_c == i0_b + i1_b
        i1_c == (w2c_p1 \div 100) % 10
        i0_d == i0_c + i1_c
    IN ShiftLeft(i0_d, 2)

cdx_index(w2c_p0, w2c_p1) ==
    LET i0_a == FloorDiv(w2c_p1, 10)
        p0_a == i0_a
        i0_b == i0_a % 10
        i1_a == w2c_p1
        i2_a == p0_a * 10
        i1_b == i1_a - i2_a
        i0_c == i0_b + i1_b
        i1_c == FloorDiv(w2c_p1, 100) % 10
        i0_d == i0_c + i1_c
    IN ShiftLeft(i0_d, 2)

cdx(w2c_p0, w2c_p1) == At(TokenParser_data, cdx_index(w2c_p0, w2c_p1)) + 22

rdx_digits(w2c_p0, w2c_p1, w2c_p2) ==
    LET i0_a == FloorDiv(w2c_p1, 100) % 10
        i1_a == FloorDiv(w2c_p1, 10)
        i1_b == i1_a % 10
    IN i0_a + i1_b

rdx_index(w2c_p0, w2c_p1, w2c_p2) ==
    LET i1_a == FloorDiv(w2c_p1, 10)
        p0_a == i1_a
        p2_a == rdx_digits(w2c_p0, w2c_p1, w2c_p2)
        i1_c == p2_a
        i2_a == w2c_p1 - p0_a * 10
        i1_d == i1_c + i2_a
    IN ShiftLeft(i1_d, 2)

rdx(w2c_p0, w2c_p1, w2c_p2) ==
    LET i0_b == rdx_digits(w2c_p0, w2c_p1, w2c_p2)
        i1_f == At(TokenParser_data, rdx_index(w2c_p0, w2c_p1, w2c_p2))
        i0_c == i0_b + i1_f
    IN i0_c + 22

(***************************************************************************)
(* What a call of cdx, rdx or parse gives its caller: the value, or the     *)
(* IndexError of a table lookup.                                            *)
(***************************************************************************)
CdxOutcome(w2c_p0, w2c_p1) ==
    IF InTable(TokenParser_data, cdx_index(w2c_p0, w2c_p1))
    THEN [kind |-> "int", value |-> cdx(w2c_p0, w2c_p1)]
    ELSE Raise("IndexError")

RdxOutcome(w2c_p0, w2c_p1, w2c_p2) ==
    IF InTable(TokenParser_data, rdx_index(w2c_p0, w2c_p1, w2c_p2))
    THEN [kind |-> "int", value |-> rdx(w2c_p0, w2c_p1, w2c_p2)]
    ELSE Raise("IndexError")

parse_sameIndices(response) ==
    LET n == cdx(response.salt1, response.salt2)
        l == rdx(response.salt1, response.salt2, response.salt4)
        access_token == response.accessToken
        refresh_token == response.refreshToken
    IN [ accessToken |-> Slice(access_token, 0, n) \o Slice(access_token, n + 1, l)
                             \o SliceFrom(access_token, l + 1),
         refreshToken |-> Slice(refresh_token, 0, n) \o Slice(refresh_token, n + 1, l)
                              \o SliceFrom(refresh_token, l + 1) ]

parse(response) ==
    LET n == cdx(response.salt1, response.salt2)
        i == cdx(response.salt2, response.salt1)
        l == rdx(response.salt1, response.salt2, response.salt4)
        r == rdx(response.salt2, response.salt1, response.salt3)
        access_token == response.accessToken
        refresh_token == response.refreshToken
    IN [ accessToken |-> Slice(access_token, 0, n) \o Slice(access_token, n + 1, l)
                             \o SliceFrom(access_token, l + 1),
         refreshToken |-> Slice(refresh_token, 0, i) \o Slice(refresh_token, i + 1, r)
                              \o SliceFrom(refresh_token, r + 1) ]

ParseOutcome(response) ==
    IF /\ CdxOutcome(response.salt1, response.salt2).kind = "int"
       /\ CdxOutcome(response.salt2, response.salt1).kind = "int"
       /\ RdxOutcome(response.salt1, response.salt2, response.salt4).kind = "int"
       /\ RdxOutcome(response.salt2, response.salt1, response.salt3).kind = "int"
    THEN [kind |-> "tokens", value |-> parse(response)]
    ELSE Raise("IndexError")

(***************************************************************************)
(* The token parser called on every input within the bounds: cdx and rdx    *)
(* directly, parse from _fetch_jwt_tokens during construction, when         *)
(* self._jwt_tokens still holds the two empty strings of __init__.  The     *)
(* characters of a token are numbered, so that a parsed token shows which   *)
(* of them were dropped.                                                    *)
(***************************************************************************)
MaxSalt == 123       \* largest salt the server sends

MaxTokenLen == 40    \* longest padded token the server sends

(***************************************************************************)
(* The salts cdx and rdx are called with: every integer from -MaxSalt to    *)
(* MaxSalt, and integers of many digits of either sign (all digits 9, a     *)
(* power of ten and its neighbour).                                         *)
(***************************************************************************)
LargeSalts == {999, 1000, 99999, 100000, 99999999}

Salts == (0 - MaxSalt)..MaxSalt \cup LargeSalts \cup {0 - salt : salt \in LargeSalts}

ParseSalts == {5, 48, MaxSalt}

TokenLens == {24, 26, MaxTokenLen}

AccessString(len) == [k \in 1..len |-> k]

RefreshString(len) == [k \in 1..len |-> 0 - k]

Responses ==
    { [ salt1 |-> s1, salt2 |-> s2, salt3 |-> s3, salt4 |-> s4,
        accessToken |-> AccessString(a), refreshToken |-> RefreshString(b) ] :
        s1 \in ParseSalts, s2 \in ParseSalts, s3 \in {0, MaxSalt}, s4 \in {0, MaxSalt},
        a \in TokenLens, b \in TokenLens }

EmptyTokens == [accessToken |-> <<>>, refreshToken |-> <<>>]

TokenCalls ==
    [ fn : {"cdx"}, p0 : {0, MaxSalt}, p1 : Salts ]
    \cup
    [ fn : {"rdx"}, p0 : {0, MaxSalt}, p1 : Salts, p2 : {0, MaxSalt} ]
    \cup
    [ fn : {"_fetch_jwt_tokens"}, response : Responses, error : BOOLEAN ]

InitToken ==
    /\ _jwt_tokens = EmptyTokens
    /\ _securities = <<>>
    /\ _sectors = <<>>
    /\ _holidays = {}
    /\ sectors_pkl = NoFile
    /\ job = NoJob
    /\ sec = NoSec
    /\ fs = NoFs
    /\ rng = NoRng
    /\ inflight = <<>>
    /\ log = <<>>
    /\ result = [kind |-> "idle"]
    /\ call \in TokenCalls
    /\ ret = Pending

tokvars == <<_securities, _sectors, _holidays, sectors_pkl, job, sec, fs, rng, inflight, log, result, call>>

Cdx ==
    /\ call.fn = "cdx"
    /\ ret = Pending
    /\ ret' = CdxOutcome(call.p0, call.p1)
    /\ UNCHANGED <<tokvars, _jwt_tokens>>

Rdx ==
    /\ call.fn = "rdx"
    /\ ret = Pending
    /\ ret' = RdxOutcome(call.p0, call.p1, call.p2)
    /\ UNCHANGED <<tokvars, _jwt_tokens>>

(***************************************************************************)
(* `if not error: self._jwt_tokens = TokenParser.parse(response.json())`,   *)
(* the last two lines of _fetch_jwt_tokens and of _refresh_jwt_tokens: the  *)
(* pair held after them.  The variant assigns the access token alone.       *)
(***************************************************************************)
HeldAfter_accessOnly(held, response, error) ==
    IF error \/ ParseOutcome(response).kind # "tokens"
    THEN held
    ELSE [held EXCEPT !.accessToken = ParseOutcome(response).value.accessToken]

HeldAfter(held, response, error) ==
    IF error \/ ParseOutcome(response).kind # "tokens"
    THEN held
    ELSE ParseOutcome(response).value

(***************************************************************************)
(* _fetch_jwt_tokens once its GET is answered: with an error nothing is     *)
(* assigned; otherwise self._jwt_tokens becomes what parse returns.         *)
(***************************************************************************)
_fetch_jwt_tokens ==
    /\ call.fn = "_fetch_jwt_tokens"
    /\ ret = Pending
    /\ ret' = IF call.error THEN NoneValue ELSE ParseOutcome(call.response)
    /\ _jwt_tokens' = HeldAfter(_jwt_tokens, call.response, call.error)
    /\ UNCHANGED tokvars

(***************************************************************************)
(* _refresh_jwt_tokens, called with the pair _fetch_jwt_tokens left, once   *)
(* its POST is over: answered with a new pair ("ok"), answered with an      *)
(* error status ("status": _perform_request returns the error), or not      *)
(* answered at all ("exception": the UnboundLocalError of _perform_request  *)
(* leaves _refresh_jwt_tokens before its last two lines).  result keeps     *)
(* what the POST did and what the call gave back.                           *)
(***************************************************************************)
RefreshResponses ==
    { response \in Responses :
        /\ response.salt1 = 48
        /\ response.salt3 = 0
        /\ response.salt4 = 0
        /\ Len(response.accessToken) = MaxTokenLen
        /\ Len(response.refreshToken) = MaxTokenLen }

_refresh_jwt_tokens ==
    \E response \in RefreshResponses, how \in {"ok", "status", "exception"} :
        /\ call.fn = "_fetch_jwt_tokens"
        /\ ret # Pending
        /\ result.kind = "idle"
        /\ result' = [ kind |-> "refresh", response |-> response, how |-> how,
                       value |-> CASE how = "exception" -> Raise("UnboundLocalError")
                                   [] how = "status" -> NoneValue
                                   [] how = "ok" -> IF ParseOutcome(response).kind = "tokens"
                                                    THEN NoneValue
                                                    ELSE ParseOutcome(response) ]
        /\ _jwt_tokens' = IF how = "exception"
                          THEN _jwt_tokens
                          ELSE HeldAfter(_jwt_tokens, response, how = "status")
        /\ UNCHANGED <<refvars, job, sec, fs, rng, inflight, log, purevars>>

NextToken ==
    \/ Cdx
    \/ Rdx
    \/ _fetch_jwt_tokens
    \/ _refresh_jwt_tokens

SpecToken == InitToken /\ [][NextToken]_vars

(***************************************************************************)
(* _fetch_sectors, run by the constructor after self._sectors = {}: the     *)
(* snapshot is loaded when the file exists, otherwise the sectors are       *)
(* fetched with one GET and, when it succeeds, kept and written to the      *)
(* file.  The dict comprehension keeps the last index of an id listed       *)
(* twice.  call.snapshot is the file as _fetch_sectors found it.  The       *)
(* first construction finds no file.                                        *)
(***************************************************************************)
MaxListed == 2       \* most sectors the server lists

SectorNames == {"Banking", "Hydro"}

SectorListings ==
    SeqsUpTo([id : {KnownSector, KnownSector + 1}, index : SectorNames], MaxListed)

SectorsOf(listing) ==
    [id \in { listing[i].id : i \in 1..Len(listing) } |->
        LET last == CHOOSE i \in 1..Len(listing) :
                        /\ listing[i].id = id
                        /\ \A k \in (i + 1)..Len(listing) : listing[k].id # id
        IN listing[last].index]

InitSectors ==
    /\ _jwt_tokens = [accessToken |-> 1, refreshToken |-> 1]
    /\ _securities = [symbol \in Symbols |-> [securityId |-> symbol]]
    /\ _sectors = <<>>
    /\ _holidays = {}
    /\ sectors_pkl = NoFile
    /\ job = NoJob
    /\ sec = NoSec
    /\ fs = NoFs
    /\ rng = NoRng
    /\ inflight = <<>>
    /\ log = <<>>
    /\ result = [kind |-> "idle"]
    /\ call = NoCall
    /\ ret = NoneValue

_fetch_sectors ==
    LET m == Machine(_jwt_tokens)
    IN /\ Idle
       /\ job' = Job("_fetch_sectors", "", 0, NoDate, NoTopN)
       /\ call' = [fn |-> "_fetch_sectors", snapshot |-> sectors_pkl]
       /\ IF sectors_pkl # NoFile
          THEN /\ _sectors' = _unpickle_data(sectors_pkl)
               /\ Becomes(Finish(m, NoneValue))
          ELSE /\ _sectors' = <<>>
               /\ Becomes(Send(m, Request("sectors", "", 0, m.jwt.accessToken)))
       /\ UNCHANGED <<_securities, _holidays, sectors_pkl, ret>>

ServerSectors ==
    \E listing \in SectorListings :
        /\ Answerable
        /\ Top.kind = "sectors"
        /\ Becomes(ReturnFromRequest(Answered(Current, "200", listing, FALSE), job, Ok(listing)))
        /\ _sectors' = SectorsOf(listing)
        /\ sectors_pkl' = _pickle_data("sectors.pkl", SectorsOf(listing))
        /\ UNCHANGED <<job, _securities, _holidays, purevars>>

NextSectors ==
    \/ _fetch_sectors
    \/ ServerSectors
    \/ Server401
    \/ ServerError
    \/ TransportFailure
    \/ Return

SpecSectors == InitSectors /\ [][NextSectors]_vars

(***************************************************************************)
(* Properties.                                                              *)
(***************************************************************************)
Friday == 4

Saturday == 5

GuardedOps ==
    { "_get_floorsheet", "_get_sector_floorsheet", "display_security_floorsheet",
      "display_sector_floorsheet", "display_sector_combined_broker_trade" }

SecurityOps == {"_get_floorsheet", "display_security_floorsheet"}

NonTradingDate(date) ==
    /\ date # NoDate
    /\ \/ date % 7 = Friday
       \/ date % 7 = Saturday
       \/ date > Today
       \/ date \in _holidays

\* C1: a guarded operation called with a date that is a Friday, a Saturday,
\* later than now or a loaded holiday does not run the wrapped operation: no
\* request is put on the wire and the call returns None without raising.
C1_GuardShortCircuits ==
    (job.op \in GuardedOps /\ NonTradingDate(job.date))
        => (result.kind = "None" /\ log = <<>> /\ inflight = <<>>)

C1_Witness ==
    /\ job.op = "display_sector_combined_broker_trade"
    /\ job.sector_id = KnownSector
    /\ job.date % 7 = Friday
    /\ result.kind = "None"
    /\ log = <<>>

RECURSIVE ConcatContents(_, _)
ConcatContents(entries, i) ==
    IF i > Len(entries) THEN <<>> ELSE entries[i].content \o ConcatContents(entries, i + 1)

AllPagesServed ==
    /\ job.op \in SecurityOps
    /\ Len(log) >= 1
    /\ \A i \in 1..Len(log) :
           /\ log[i].kind = "floorsheet"
           /\ log[i].answer = "200"
           /\ log[i].last <=> i = Len(log)

\* C2: when the floorsheet endpoint answers k pages successfully and reports
\* last=true on the k-th only, _get_floorsheet has sent exactly k requests,
\* for the pages 0, 1, ..., k-1 in that order, and the records accumulated
\* are the contents of the pages concatenated in page order.
C2_PagesPolledInOrder ==
    AllPagesServed
        => /\ result.kind # "running"
           /\ inflight = <<>>
           /\ \A i \in 1..Len(log) : log[i].page = i - 1
           /\ fs.floorsheet_data = ConcatContents(log, 1)

C2_Witness ==
    /\ AllPagesServed
    /\ job.op = "_get_floorsheet"
    /\ Len(log) = 3
    /\ Len(fs.floorsheet_data) = 3
    /\ fs.floorsheet_data[1] # fs.floorsheet_data[2]
    /\ result.kind = "pair"

\* C3: when a request gets HTTP 401 and the token refresh that follows
\* succeeds, the refresh is made once and the original request is then sent
\* once more, with the new access token.  (Stated for the floorsheet page
\* requests.)
C3_RefreshThenRetryOnce ==
    \A i \in 1..Len(log) :
        ( /\ log[i].kind = "floorsheet"
          /\ log[i].answer = "401"
          /\ i + 1 <= Len(log)
          /\ log[i + 1].answer = "200" )
        => /\ log[i + 1].kind = "refresh"
           /\ i + 2 <= Len(log)
           /\ log[i + 2].kind = "floorsheet"
           /\ log[i + 2].symbol = log[i].symbol
           /\ log[i + 2].page = log[i].page
           /\ log[i + 2].auth # log[i].auth

\* C4: a refresh-token request that is itself answered 401 surfaces the
\* failure: no further request is nested under a refresh request in flight,
\* so the chain of refresh calls one original request triggers stays bounded.
C4_NoRefreshUnderRefresh ==
    [][(inflight # <<>> /\ Top.kind = "refresh") => Len(inflight') <= Len(inflight)]_vars

\* C5: when the server answers a floorsheet page request with "Searched Date
\* is not valid.", no further page is requested and the fetch returns empty
\* aggregates, also when earlier pages of the fetch were accumulated.
C5_DateRejectionGivesEmptyResult ==
    (job.op = "_get_floorsheet" /\ \E i \in 1..Len(log) : log[i].answer = "date")
        => /\ log[Len(log)].answer = "date"
           /\ result.kind # "running"
           /\ result.kind = "pair" => (result.top_buy = <<>> /\ result.top_sell = <<>>)

\* C6: when every page request of a fetch fails with an error other than the
\* date rejection (HTTP 500), _get_floorsheet terminates and returns empty
\* aggregates: once MaxRequests requests have failed, it has returned.
C6_FailedFetchTerminates ==
    ( /\ job.op = "_get_floorsheet"
      /\ Len(log) >= MaxRequests
      /\ \A i \in 1..MaxRequests : log[i].answer = "500" )
        => /\ result.kind = "pair"
           /\ result.top_buy = <<>>
           /\ result.top_sell = <<>>

RECURSIVE SumContract(_, _)
SumContract(data, i) ==
    IF i > Len(data) THEN 0 ELSE data[i].contractQuantity + SumContract(data, i + 1)

BuyerOf(r) == r.buyerMemberId \o " - " \o r.buyerBrokerName

SellerOf(r) == r.sellerMemberId \o " - " \o r.sellerBrokerName

RECURSIVE BoughtBy(_, _, _)
BoughtBy(data, k, i) ==
    IF i > Len(data) THEN 0
    ELSE (IF BuyerOf(data[i]) = k THEN data[i].contractQuantity ELSE 0) + BoughtBy(data, k, i + 1)

RECURSIVE SoldBy(_, _, _)
SoldBy(data, k, i) ==
    IF i > Len(data) THEN 0
    ELSE (IF SellerOf(data[i]) = k THEN data[i].contractQuantity ELSE 0) + SoldBy(data, k, i + 1)

KeysOf(entries) == { entries[i].key : i \in 1..Len(entries) }

\* C8: the single-day aggregation keys brokers by "<memberId> - <brokerName>";
\* the buy-side quantity of an identity is the sum of contractQuantity over
\* the records in which it is the buyer, its sell-side quantity the sum over
\* those in which it is the seller; an identity is on a side only if a record
\* names it there, once, and with top_n absent every identity a record names
\* on a side is there.
C8_QuantitiesPerBrokerIdentity ==
    (call.fn = "aggregate" /\ ret.kind = "pair")
        => /\ \A i \in 1..Len(ret.top_buy) :
                  /\ \E n \in 1..Len(call.data) : BuyerOf(call.data[n]) = ret.top_buy[i].key
                  /\ ret.top_buy[i].quantity = BoughtBy(call.data, ret.top_buy[i].key, 1)
                  /\ \A k \in 1..Len(ret.top_buy) : ret.top_buy[k].key = ret.top_buy[i].key => k = i
           /\ \A i \in 1..Len(ret.top_sell) :
                  /\ \E n \in 1..Len(call.data) : SellerOf(call.data[n]) = ret.top_sell[i].key
                  /\ ret.top_sell[i].quantity = SoldBy(call.data, ret.top_sell[i].key, 1)
                  /\ \A k \in 1..Len(ret.top_sell) : ret.top_sell[k].key = ret.top_sell[i].key => k = i
           /\ call.top_n = NoTopN
                  => /\ KeysOf(ret.top_buy) = { BuyerOf(call.data[n]) : n \in 1..Len(call.data) }
                     /\ KeysOf(ret.top_sell) = { SellerOf(call.data[n]) : n \in 1..Len(call.data) }

C8_Witness ==
    /\ call.fn = "aggregate"
    /\ ret.kind = "pair"
    /\ Len(call.data) = 2
    /\ Len(ret.top_buy) = 1
    /\ ret.top_buy[1].key = "10 - X"
    /\ ret.top_buy[1].quantity = 3
    /\ Len(ret.top_sell) = 2
    /\ ret.top_sell[1].key = "20 - Y"
    /\ ret.top_sell[1].quantity = 2
    /\ ret.top_sell[2].key = "10 - W"
    /\ ret.top_sell[2].quantity = 1

PercentsInRange(entries) ==
    \A i \in 1..Len(entries) : entries[i].percent >= 0 /\ entries[i].percent <= 100 * 100

\* C9: in the single-day aggregation the computation of the percents never
\* fails and every percent lies in [0, 100], for every total the server
\* reports, 0 and totals below the sum of the fetched records included.
C9_PercentNeverFailsAndInRange ==
    (call.fn = "aggregate" /\ ret # Pending)
        => /\ ret.kind = "pair"
           /\ PercentsInRange(ret.top_buy)
           /\ PercentsInRange(ret.top_sell)

Position(entries, key) == CHOOSE i \in 1..Len(entries) : entries[i].key = key

\* C10: _get_sorted_list returns the entries in non-increasing order of
\* quantity, entries of equal quantity in the order of the aggregate; all of
\* them when top_n is None, and the first min(N, number of entries) of that
\* order when top_n = N.
C10_RankedStableTruncated ==
    (call.fn = "_get_sorted_list" /\ ret.kind = "list")
        => LET data == call.data
               ranked == ret.items
           IN /\ Len(ranked) = IF call.top_n = NoTopN THEN Len(data)
                               ELSE Min(call.top_n, Len(data))
              /\ \A i \in 1..Len(ranked) : \E n \in 1..Len(data) : data[n] = ranked[i]
              /\ \A i, k \in 1..Len(ranked) :
                     i < k => /\ ranked[i].key # ranked[k].key
                              /\ ranked[i].quantity >= ranked[k].quantity
                              /\ ranked[i].quantity = ranked[k].quantity
                                     => Position(data, ranked[i].key) < Position(data, ranked[k].key)
              /\ \A n \in 1..Len(data) :
                     data[n].key \notin KeysOf(ranked)
                         => \A i \in 1..Len(ranked) :
                                \/ ranked[i].quantity > data[n].quantity
                                \/ /\ ranked[i].quantity = data[n].quantity
                                   /\ Position(data, ranked[i].key) < n

(***************************************************************************)
(* The reorderings of a record list.                                        *)
(***************************************************************************)
Reorderings(data) ==
    LET n == Len(data)
        perms == { p \in [1..n -> 1..n] : \A i, k \in 1..n : i # k => p[i] # p[k] }
    IN { [i \in 1..n |-> data[p[i]]] : p \in perms }

\* C11: the ranked buy and sell lists of the single-day aggregation depend on
\* the multiset of records only: every reordering of the same records, with
\* the same totalQuantity and the same top_n, gives the identical ranked
\* lists.
C11_RankingIgnoresRecordOrder ==
    (call.fn = "aggregate" /\ ret.kind = "pair")
        => \A other \in Reorderings(call.data) :
               AggregateSingleDay(other, call.total_quantity, call.top_n) = ret

(***************************************************************************)
(* What a broker traded on a side of one day's ranked list, and over the    *)
(* days of a range that returned lists.                                     *)
(***************************************************************************)
QuantityOf(entries, key) ==
    IF \E i \in 1..Len(entries) : entries[i].key = key
    THEN (CHOOSE e \in { entries[i] : i \in 1..Len(entries) } : e.key = key).quantity
    ELSE 0

RECURSIVE SumOverDays(_, _, _, _)
SumOverDays(days, key, side, i) ==
    IF i > Len(days) THEN 0
    ELSE (IF days[i].floorsheet.kind = "pair"
          THEN QuantityOf(IF side = "buy" THEN days[i].floorsheet.top_buy
                                          ELSE days[i].floorsheet.top_sell, key)
          ELSE 0)
         + SumOverDays(days, key, side, i + 1)

BrokerKeys == { BrokerId(b.memberId, b.brokerName) : b \in Brokers }

CombinedOf(final_data, key) ==
    IF \E i \in 1..Len(final_data) : final_data[i].key = key
    THEN CHOOSE e \in { final_data[i] : i \in 1..Len(final_data) } : e.key = key
    ELSE [key |-> key, buy |-> 0, sell |-> 0]

\* C12: _get_floorsheet_by_range visits every calendar day of [start, end]
\* once, in ascending order; a day the guard rejects gives None, adds nothing
\* and raises nothing (an exception can only come from a day that passed the
\* guard); and for every broker the combined buy (sell) total is the sum of
\* its unbounded single-day buy (sell) quantities over the days that returned
\* lists, a broker being listed exactly when it traded on some such day.
C12_RangeAddsTheDays ==
    job.op = "_get_floorsheet_by_range" =>
        /\ \A i \in 1..Len(rng.days) :
               /\ rng.days[i].date = rng.start_date + (i - 1)
               /\ rng.days[i].date <= rng.end_date
               /\ NonTradingDate(rng.days[i].date) <=> rng.days[i].floorsheet.kind = "None"
        /\ result.kind = "raise" => ~NonTradingDate(rng.start_date + Len(rng.days))
        /\ result.kind = "combined" =>
               /\ Len(rng.days) = IF rng.end_date >= rng.start_date
                                  THEN rng.end_date - rng.start_date + 1 ELSE 0
               /\ \A i, k \in 1..Len(result.items) :
                      i # k => result.items[i].key # result.items[k].key
               /\ \A i \in 1..Len(result.items) :
                      \/ SumOverDays(rng.days, result.items[i].key, "buy", 1) > 0
                      \/ SumOverDays(rng.days, result.items[i].key, "sell", 1) > 0
               /\ \A key \in BrokerKeys :
                      /\ CombinedOf(result.items, key).buy = SumOverDays(rng.days, key, "buy", 1)
                      /\ CombinedOf(result.items, key).sell = SumOverDays(rng.days, key, "sell", 1)

\* A range from Thursday to Monday has returned: three days were rejected by
\* the guard, and a broker bought on both trading days.
C12_Witness ==
    /\ job.op = "_get_floorsheet_by_range"
    /\ result.kind = "combined"
    /\ Len(rng.days) = 5
    /\ \E i \in 1..Len(result.items) :
           /\ result.items[i].buy = 2
           /\ result.items[i].sell = 0
           /\ result.items[i].key = "10 - X"
    /\ rng.days[1].floorsheet.kind = "pair"
    /\ rng.days[2].floorsheet.kind = "None"
    /\ rng.days[5].floorsheet.kind = "pair"

(***************************************************************************)
(* What a broker traded on a side over all the securities of a sector, and  *)
(* what the whole sector traded on that side.                               *)
(***************************************************************************)
SideOf(floorsheet, side) == IF side = "buy" THEN floorsheet.top_buy ELSE floorsheet.top_sell

RECURSIVE SumOverSecurities(_, _, _, _)
SumOverSecurities(items, key, side, i) ==
    IF i > Len(items) THEN 0
    ELSE QuantityOf(SideOf(items[i], side), key) + SumOverSecurities(items, key, side, i + 1)

RECURSIVE SectorTotal(_, _, _)
SectorTotal(items, side, i) ==
    IF i > Len(items) THEN 0
    ELSE SumQuantity(SideOf(items[i], side), 1) + SectorTotal(items, side, i + 1)

MergedAsClaimed(items, merged, side) ==
    /\ \A key \in BrokerKeys :
           QuantityOf(merged, key) = SumOverSecurities(items, key, side, 1)
    /\ \A i \in 1..Len(merged) :
           /\ SectorTotal(items, side, 1) > 0
           /\ merged[i].percent = Percent(merged[i].quantity, SectorTotal(items, side, 1))
           /\ merged[i].percent >= 0
           /\ merged[i].percent <= 100 * 100

\* C13: once display_sector_combined_broker_trade has merged the securities
\* of the sector, the merge has not failed, every broker's merged quantity on
\* a side is the sum of its quantities over the securities, and its percent
\* is that quantity * 100 / the sector-wide total of the side, within
\* [0, 100].
C13_SectorMergeNormalised ==
    (job.op = "display_sector_combined_broker_trade" /\ sec.sector_analysis.kind # "none")
        => /\ sec.sector_analysis.kind = "analysis"
           /\ MergedAsClaimed(sec.sector_floorsheet, sec.sector_analysis.top_buy, "buy")
           /\ MergedAsClaimed(sec.sector_floorsheet, sec.sector_analysis.top_sell, "sell")

(***************************************************************************)
(* token[lo:hi] and token[lo:] read character by character.                 *)
(***************************************************************************)
Piece(token, lo, hi) ==
    LET stop == IF hi < Len(token) THEN hi ELSE Len(token)
    IN [k \in 1..(IF stop > lo THEN stop - lo ELSE 0) |-> token[lo + k]]

Rest(token, lo) == Piece(token, lo, Len(token))

\* C14: parse returns accessToken[0:n] + accessToken[n+1:l] + accessToken[l+1:]
\* and refreshToken[0:i] + refreshToken[i+1:r] + refreshToken[r+1:], with
\* n = cdx(salt1,salt2), i = cdx(salt2,salt1), l = rdx(salt1,salt2,salt4) and
\* r = rdx(salt2,salt1,salt3); nothing but the response enters the result.
C14_ParseDropsTwoCharacters ==
    (call.fn = "_fetch_jwt_tokens" /\ ret.kind = "tokens")
        => LET response == call.response
               n == cdx(response.salt1, response.salt2)
               i == cdx(response.salt2, response.salt1)
               l == rdx(response.salt1, response.salt2, response.salt4)
               r == rdx(response.salt2, response.salt1, response.salt3)
               a == response.accessToken
               b == response.refreshToken
           IN /\ ret.value.accessToken = Piece(a, 0, n) \o Piece(a, n + 1, l) \o Rest(a, l + 1)
              /\ ret.value.refreshToken = Piece(b, 0, i) \o Piece(b, i + 1, r) \o Rest(b, r + 1)
              /\ \A other \in TokenCalls :
                     (other.fn = "_fetch_jwt_tokens" /\ other.response = response)
                         => parse(other.response) = ret.value

\* parse has run on tokens of full length with different salts: two
\* characters are gone from each token, at different places.
C14_Witness ==
    /\ call.fn = "_fetch_jwt_tokens"
    /\ ret.kind = "tokens"
    /\ call.response.salt1 # call.response.salt2
    /\ Len(call.response.accessToken) = MaxTokenLen
    /\ Len(call.response.refreshToken) = MaxTokenLen
    /\ Len(ret.value.accessToken) = MaxTokenLen - 2
    /\ Len(ret.value.refreshToken) = MaxTokenLen - 2
    /\ \E k \in 1..(MaxTokenLen - 2) : ret.value.accessToken[k] # 0 - ret.value.refreshToken[k]

\* C15 (amended): cdx(p0, p1) is table[(i0 + i1 + ((p1//100) % 10)) << 2] + 22
\* with i0 = (p1//10) % 10 and i1 = p1 - (p1//10)*10, the last digit of p1.
C15_CdxDigitSum ==
    (call.fn = "cdx" /\ ret.kind = "int")
        => LET i0 == (call.p1 \div 10) % 10
               i1 == call.p1 - (call.p1 \div 10) * 10
               index == (i0 + i1 + ((call.p1 \div 100) % 10)) * 4
           IN /\ i1 = call.p1 % 10
              /\ index + 1 \in DOMAIN TokenParser_data
              /\ ret.value = TokenParser_data[index + 1] + 22

\* C15 (as claimed): cdx(p0, p1) is table[(i0 + i1 + ((p1//100) % 10)) << 2] + 22
\* with i0 = (p1//10) % 10 and i1 = p1 - i0*10.
C15_CdxAsClaimed ==
    (call.fn = "cdx" /\ ret.kind = "int")
        => LET i0 == (call.p1 \div 10) % 10
               i1 == call.p1 - i0 * 10
               index == (i0 + i1 + ((call.p1 \div 100) % 10)) * 4
           IN /\ index + 1 \in DOMAIN TokenParser_data
              /\ ret.value = TokenParser_data[index + 1] + 22

\* cdx has returned for a p1 of three digits, none of them 0.
C15_Witness ==
    /\ call.fn = "cdx"
    /\ ret.kind = "int"
    /\ call.p1 >= 100
    /\ (call.p1 \div 10) % 10 > 0
    /\ call.p1 % 10 > 0

\* C16: when an index derived from the salts lies outside its token, parse
\* signals a decode error and the held token pair is not replaced.
C16_DecodeErrorOnBadIndex ==
    LET response == call.response
        n == cdx(response.salt1, response.salt2)
        i == cdx(response.salt2, response.salt1)
        l == rdx(response.salt1, response.salt2, response.salt4)
        r == rdx(response.salt2, response.salt1, response.salt3)
    IN (/\ call.fn = "_fetch_jwt_tokens"
        /\ ~call.error
        /\ ret # Pending
        /\ \/ n >= Len(response.accessToken)
           \/ l >= Len(response.accessToken)
           \/ i >= Len(response.refreshToken)
           \/ r >= Len(response.refreshToken))
           => /\ ret.kind = "raise"
              /\ _jwt_tokens = EmptyTokens

\* C17: when the GET listing the securities of the sector is answered with
\* an error, or with no securities, display_sector_floorsheet and
\* display_sector_combined_broker_trade return without raising (an empty
\* report).
C17_SectorReportDegradesToEmpty ==
    (/\ job.op \in {"display_sector_floorsheet", "display_sector_combined_broker_trade"}
     /\ Len(log) = 1
     /\ log[1].kind = "sector"
     /\ \/ log[1].answer = "500"
        \/ log[1].answer = "200" /\ sec.securities = <<>>
     /\ result.kind # "running")
        => result.kind = "None"

\* C18: a request is issued with the access token held at that moment: the
\* request waiting for its answer carries the access token now held, and the
\* request that follows a successful refresh carries another token than the
\* refresh request did, the refreshed one.
C18_RequestsCarryCurrentToken ==
    \A i \in 1..Len(log) :
        /\ log[i].answer = "pending" =>
               /\ i = Len(log)
               /\ log[i].auth = _jwt_tokens.accessToken
        /\ (log[i].kind = "refresh" /\ log[i].answer = "200" /\ i < Len(log)) =>
               log[i + 1].auth # log[i].auth

\* A page was answered 401, the refresh succeeded, and the next page request
\* is waiting with the refreshed token.
C18_Witness ==
    /\ Len(log) = 3
    /\ log[1].kind = "floorsheet" /\ log[1].answer = "401"
    /\ log[2].kind = "refresh" /\ log[2].answer = "200"
    /\ log[3].kind = "floorsheet" /\ log[3].answer = "pending"
    /\ log[3].auth # log[1].auth
    /\ log[3].auth = _jwt_tokens.accessToken

(***************************************************************************)
(* The sends of one request: the first, then the transport's resends.       *)
(***************************************************************************)
OneGet ==
    /\ Len(log) >= 1
    /\ Len(log) <= RetryTotal + 1
    /\ \A i \in 1..Len(log) : log[i].kind = "sectors" /\ log[i].tries = i - 1
    /\ \A i \in 1..(Len(log) - 1) : log[i].answer = "401"

HoldsPairs(sectors, pairs) ==
    /\ DOMAIN sectors = { pair[1] : pair \in pairs }
    /\ \A pair \in pairs : sectors[pair[1]] = pair[2]

ListedLast(listing) ==
    { <<listing[i].id, listing[i].index>> : i \in
        { i \in 1..Len(listing) : \A k \in (i + 1)..Len(listing) : listing[k].id # listing[i].id } }

\* C19: _fetch_sectors with a snapshot on disk makes the sector map exactly
\* the snapshot and issues no request; without one it issues one GET, and
\* when the GET succeeds the fetched id -> name mapping is held and is what
\* the file now holds (so the next load returns it without a request), and
\* when it fails no file is written and the sector map stays empty.
C19_SectorsLoadedOrFetchedOnce ==
    job.op = "_fetch_sectors" =>
        IF call.snapshot # NoFile
        THEN /\ log = <<>>
             /\ result.kind = "None"
             /\ sectors_pkl = call.snapshot
             /\ HoldsPairs(_sectors, call.snapshot.pairs)
        ELSE /\ OneGet
             /\ IF log[Len(log)].answer = "200"
                THEN /\ result.kind = "None"
                     /\ HoldsPairs(_sectors, ListedLast(log[Len(log)].content))
                     /\ sectors_pkl # NoFile
                     /\ HoldsPairs(_sectors, sectors_pkl.pairs)
                ELSE /\ sectors_pkl = NoFile
                     /\ _sectors = <<>>

\* The sectors were fetched and written, and a later _fetch_sectors has
\* loaded the two sectors from the file without a request.
C19_Witness ==
    /\ job.op = "_fetch_sectors"
    /\ call.snapshot # NoFile
    /\ log = <<>>
    /\ DOMAIN _sectors = {KnownSector, KnownSector + 1}
    /\ _sectors[KnownSector + 1] = "Hydro"

\* C20: every request issued through _perform_request is sent right after
\* the fixed delay, and requests are issued one at a time: only the request
\* issued last can be waiting for its answer, and the only requests issued
\* while another has not returned are the refresh requests of the 401 hook,
\* nested in it.
C20_DelayedAndSequential ==
    /\ \A i \in 1..Len(log) :
           /\ log[i].tries = 0 => log[i].slept
           /\ log[i].answer = "pending" => i = Len(log)
    /\ \A i \in 1..Len(inflight) :
           /\ inflight[i].tries = 0 => inflight[i].slept
           /\ i > 1 => /\ inflight[i].kind = "refresh"
                       /\ inflight[i - 1].kind \in {"floorsheet", "refresh"}
    /\ Len(inflight) <= Len(log)
    /\ inflight # <<>> => inflight[Len(inflight)].kind = log[Len(log)].kind

\* A sector listing and a page were fetched, the next page was answered 401
\* and the refresh request of the hook is waiting, nested in it.
C20_Witness ==
    /\ Len(log) = 4
    /\ log[1].kind = "sector" /\ log[1].answer = "200"
    /\ log[2].kind = "floorsheet" /\ log[2].answer = "200"
    /\ log[3].kind = "floorsheet" /\ log[3].answer = "401"
    /\ log[4].kind = "refresh" /\ log[4].answer = "pending"
    /\ Len(inflight) = 2
    /\ \A i \in 1..Len(log) : log[i].slept

C22_PerformRequestNeverRaises ==
    (log # <<>> /\ log[Len(log)].answer \in {"exception", "401", "500", "date"})
        => result # Raise("UnboundLocalError")

\* C23: a guarded operation called without a date behaves as if called with
\* today's date: the call does not raise because of the missing date.
C23_MissingDateMeansToday ==
    (/\ job.op \in GuardedOps
     /\ job.date = NoDate
     /\ job.top_n # NoTopN
     /\ result.kind \notin {"idle", "running"})
        => result.kind # "raise"

OtherArgs == {0 - MaxSalt, 0 - 1, 0, 7, MaxSalt, 999}

\* C24: the results of cdx and rdx depend only on their second argument:
\* cdx(a, b) = cdx(a', b) and rdx(a, b, c) = rdx(a', b, c') for all a, a', c,
\* c'; so what parse returns is the same when salt3 and salt4 of the
\* response are changed and the rest of it is kept.
C24_OnlySecondArgument ==
    /\ (call.fn = "cdx" /\ ret # Pending)
           => \A a \in OtherArgs : CdxOutcome(a, call.p1) = ret
    /\ (call.fn = "rdx" /\ ret # Pending)
           => \A a, c \in OtherArgs : RdxOutcome(a, call.p1, c) = ret
    /\ (call.fn = "_fetch_jwt_tokens" /\ ~call.error /\ ret # Pending)
           => \A s3, s4 \in OtherArgs :
                  ParseOutcome([call.response EXCEPT !.salt3 = s3, !.salt4 = s4]) = ret

\* parse has returned the tokens of a response whose salt3 and salt4 differ
\* from each other and salt1 from salt2, two characters gone from each token.
C24_Witness ==
    /\ call.fn = "_fetch_jwt_tokens"
    /\ ret.kind = "tokens"
    /\ call.response.salt1 = 48
    /\ call.response.salt2 = MaxSalt
    /\ call.response.salt3 = MaxSalt
    /\ call.response.salt4 = 0
    /\ Len(call.response.accessToken) = MaxTokenLen
    /\ Len(call.response.refreshToken) = MaxTokenLen
    /\ Len(ret.value.accessToken) = MaxTokenLen - 2
    /\ Len(ret.value.refreshToken) = MaxTokenLen - 2

\* C25: for every integer salt, negative and large ones included, the index
\* cdx and rdx compute lies within the lookup table, so neither fails, and
\* cdx returns a value from 22 to 31.
C25_IndexWithinTable ==
    /\ (call.fn = "cdx" /\ ret # Pending)
           => /\ cdx_index(call.p0, call.p1) \in 0..(Len(TokenParser_data) - 1)
              /\ ret.kind = "int"
              /\ ret.value \in 22..31
    /\ (call.fn = "rdx" /\ ret # Pending)
           => /\ rdx_index(call.p0, call.p1, call.p2) \in 0..(Len(TokenParser_data) - 1)
              /\ ret.kind = "int"

\* rdx has returned for a negative salt, and the three digit terms of its
\* index are 9 each: the largest index there is.
C25_Witness ==
    /\ call.fn = "rdx"
    /\ call.p1 < 0
    /\ ret.kind = "int"
    /\ rdx_index(call.p0, call.p1, call.p2) = 108

\* The token without the characters at the given positions (counted from
\* 0), the others kept in order.
Without(token, positions) ==
    LET kept == { k \in 1..Len(token) : k - 1 \notin positions }
    IN [ j \in 1..Cardinality(kept) |->
           token[CHOOSE k \in kept : Cardinality({ x \in kept : x < k }) = j - 1] ]

\* C26: l >= n and r >= i for every salts; from a padded token longer than l
\* the decoded access token is the padded token without the characters at
\* positions n and l, the others in order: two characters fewer when l > n,
\* one fewer when l = n; the same for the refresh token with i and r.
C26_RemovesPositionsNAndL ==
    /\ (call.fn = "rdx" /\ ret # Pending)
           => /\ ret.kind = "int"
              /\ CdxOutcome(call.p0, call.p1).kind = "int"
              /\ ret.value >= CdxOutcome(call.p0, call.p1).value
    /\ (call.fn = "_fetch_jwt_tokens" /\ ~call.error /\ ret # Pending)
           => LET response == call.response
                  n == cdx(response.salt1, response.salt2)
                  i == cdx(response.salt2, response.salt1)
                  l == rdx(response.salt1, response.salt2, response.salt4)
                  r == rdx(response.salt2, response.salt1, response.salt3)
                  a == response.accessToken
                  b == response.refreshToken
              IN /\ ret.kind = "tokens"
                 /\ l >= n
                 /\ r >= i
                 /\ Len(a) > l
                        => /\ ret.value.accessToken = Without(a, {n, l})
                           /\ Len(ret.value.accessToken) = Len(a) - (IF l > n THEN 2 ELSE 1)
                 /\ Len(b) > r
                        => /\ ret.value.refreshToken = Without(b, {i, r})
                           /\ Len(ret.value.refreshToken) = Len(b) - (IF r > i THEN 2 ELSE 1)

\* parse has decoded a response in which l = n for the access token, which
\* lost one character, and r > i for the refresh token, which lost two.
C26_Witness ==
    /\ call.fn = "_fetch_jwt_tokens"
    /\ ret.kind = "tokens"
    /\ rdx(call.response.salt1, call.response.salt2, call.response.salt4)
           = cdx(call.response.salt1, call.response.salt2)
    /\ rdx(call.response.salt2, call.response.salt1, call.response.salt3)
           > cdx(call.response.salt2, call.response.salt1)
    /\ Len(call.response.accessToken) = MaxTokenLen
    /\ Len(call.response.refreshToken) = MaxTokenLen
    /\ Len(ret.value.accessToken) = MaxTokenLen - 1
    /\ Len(ret.value.refreshToken) = MaxTokenLen - 2

FetchReturns == call.fn = "_fetch_jwt_tokens" /\ ret = Pending /\ ret' # Pending

RefreshReturns == result.kind = "idle" /\ result'.kind = "refresh"

=============================================================================
